---- MODULE Spec2Model ----
(***************************************************************************)
(* EcoTrack Ghana API: the gamification ledger.                            *)
(*                                                                         *)
(* The model covers the request handlers that change a user's point and    *)
(* impact aggregates (activities/routes.py, challenges/routes.py), the     *)
(* pure scoring and impact functions they call (activities/utils.py) and   *)
(* the leaderboard query (community/routes.py).                            *)
(*                                                                         *)
(* Numbers.  Python numbers are held in fixed point: a metric, a points    *)
(* value, trash_collected and trees_planted hold  x * Unit ; co2_saved     *)
(* holds  x * Unit * 10000 , so that the factors 0.5, 21.77, 0.0003, 0.45  *)
(* and 0.2 - factor of update_user_impact_stats are whole numbers.         *)
(* Floating point rounding is not modelled.                                *)
(*                                                                         *)
(* Store.  users, activities, participants and challenges hold the         *)
(* COMMITTED rows of the database.  Each in-flight request owns one ORM    *)
(* session (database.get_db); what it has loaded into that session is in   *)
(* req[r].  A handler is split at the points where its session talks to    *)
(* the database, so that two requests interleave exactly where two         *)
(* transactions can.                                                       *)
(***************************************************************************)
EXTENDS Integers, Sequences, FiniteSets, TLC

VARIABLES
    users,          \* users table: id -> row (committed)
    activities,     \* activities table: id -> row (committed)
    participants,   \* challenge_participants table: <<user, challenge>> -> row
    challenges,     \* challenges table: id -> row
    next_id,        \* next activities.id the database hands out
    req,            \* request slot -> the handler's position and session state
    ncalls,         \* number of requests started so far
    credits,        \* history: <<user, challenge>> -> completion bonuses committed
    now,            \* the clock, datetime.utcnow(), in days
    score_in,       \* the (type, data) calculate_points is applied to
    score_out,      \* what calculate_points returned
    board_q,        \* the parameters of the last get_leaderboard call
    board           \* the list get_leaderboard returned

vars == <<users, activities, participants, challenges, next_id, req, ncalls,
          credits, now, score_in, score_out, board_q, board>>

ledgerVars == <<users, activities, participants, challenges, next_id, req,
                ncalls, credits>>
scoreVars == <<score_in, score_out>>
boardVars == <<board_q, board>>
others == <<now, scoreVars, boardVars>>   \* what no ledger handler touches

----------------------------------------------------------------------------
(* Bounds                                                                  *)

Unit == 2            \* fixed-point resolution: 1/Unit is the smallest fraction
MaxMetric == 16      \* the largest metric value calculate_points is given
MaxCalls == 3        \* requests started in one behaviour
MaxBoardPoints == 2  \* get_leaderboard: users hold 0 .. MaxBoardPoints points
MaxDate == 2         \* the clock and the challenge dates lie in 0 .. MaxDate

----------------------------------------------------------------------------
(* activities/utils.py                                                     *)

ActivityTypes == {"trash", "trees", "mobility", "water", "energy"}

EmptyDict == [k \in {} |-> 0]

\* dict.get(key, default)
Get(d, k, default) == IF k \in DOMAIN d THEN d[k] ELSE default

Min(a, b) == IF a <= b THEN a ELSE b
Max(a, b) == IF a >= b THEN a ELSE b

\* int(x) for x > 0: truncation to a whole number
int(x) == (x \div Unit) * Unit

IsWhole(x) == x % Unit = 0

\* base_points.get(activity_type, 10)
base_points(activity_type) ==
    CASE activity_type = "trash" -> 25 * Unit
      [] activity_type = "trees" -> 50 * Unit
      [] activity_type = "mobility" -> 15 * Unit
      [] activity_type = "water" -> 20 * Unit
      [] activity_type = "energy" -> 30 * Unit
      [] OTHER -> 10 * Unit

\* Python truthiness of the photos list and of the location string
\* (location None is held as the empty string: both are falsy).
Truthy(x) == Len(x) > 0

\* activity_data['impact_data'].get(...) on impact_data = None raises
\* AttributeError; only the three branches that read impact_data reach it.
calculate_points_raises(activity_type, activity_data) ==
    /\ activity_type \in {"trash", "trees", "mobility"}
    /\ activity_data.impact_none

\* type_bonus without the min(..., 25) and min(..., 15) of lines 36 and 49.
type_bonus_uncapped(activity_type, impact_data) ==
    CASE activity_type = "trash" ->
            LET bags == Get(impact_data, "bags_collected", 0)
            IN  IF bags > 0 THEN bags * 5 ELSE 0
      [] activity_type = "trees" ->
            LET trees == Get(impact_data, "trees_planted", 1 * Unit)
            IN  IF trees > 1 * Unit THEN (trees - 1 * Unit) * 20 ELSE 0
      [] activity_type = "mobility" ->
            LET distance == Get(impact_data, "distance_km", 0)
            IN  IF distance > 0 THEN int(distance) ELSE 0
      [] OTHER -> 0

type_bonus(activity_type, impact_data) ==
    CASE activity_type = "trash" ->
            LET bags == Get(impact_data, "bags_collected", 0)
            IN  IF bags > 0 THEN Min(bags * 5, 25 * Unit) ELSE 0
      [] activity_type = "trees" ->
            LET trees == Get(impact_data, "trees_planted", 1 * Unit)
            IN  IF trees > 1 * Unit THEN (trees - 1 * Unit) * 20 ELSE 0
      [] activity_type = "mobility" ->
            LET distance == Get(impact_data, "distance_km", 0)
            IN  IF distance > 0 THEN Min(int(distance), 15 * Unit) ELSE 0
      [] OTHER -> 0

cap_points(points) == Min(points, 200 * Unit)

calculate_points(activity_type, activity_data) ==
    cap_points(base_points(activity_type)
               + (IF Truthy(activity_data.photos) THEN 5 * Unit ELSE 0)
               + (IF Truthy(activity_data.location) THEN 3 * Unit ELSE 0)
               + type_bonus(activity_type, activity_data.impact_data))

\* emission_factors.get(transport_type, 0.05), in units of 0.0001 kg per km
emission_factors(transport_type) ==
    CASE transport_type = "walking" -> 0
      [] transport_type = "cycling" -> 0
      [] transport_type = "public_transport" -> 500
      [] transport_type = "car_pooling" -> 1000
      [] OTHER -> 500

\* activity_data.get('impact_data', {}).get(...) on impact_data = None: the key
\* is present (ActivityCreate.dict() holds every field), so the default {} is
\* not used and None.get raises AttributeError.
update_user_impact_stats_raises(activity_type, activity_data) ==
    /\ activity_type \in ActivityTypes
    /\ activity_data.impact_none

\* The user object after update_user_impact_stats(user, type, data).
update_user_impact_stats(user, activity_type, activity_data) ==
    LET impact_data == activity_data.impact_data IN
    CASE activity_type = "trash" ->
            LET bags == Get(impact_data, "bags_collected", 1 * Unit)
            IN  [user EXCEPT !.trash_collected = @ + bags * 2,
                             !.co2_saved = @ + bags * 5000]
      [] activity_type = "trees" ->
            LET trees == Get(impact_data, "trees_planted", 1 * Unit)
            IN  [user EXCEPT !.trees_planted = @ + trees,
                             !.co2_saved = @ + trees * 217700]
      [] activity_type = "mobility" ->
            LET distance == Get(impact_data, "distance_km", 5 * Unit)
                transport_type == Get(impact_data, "transport_type", "walking")
                saved_emissions ==
                    distance * (2000 - emission_factors(transport_type))
            IN  [user EXCEPT !.co2_saved = @ + Max(saved_emissions, 0)]
      [] activity_type = "water" ->
            LET liters_saved == Get(impact_data, "water_saved_liters", 50 * Unit)
            IN  [user EXCEPT !.co2_saved = @ + liters_saved * 3]
      [] activity_type = "energy" ->
            LET kwh_saved == Get(impact_data, "energy_saved_kwh", 5 * Unit)
            IN  [user EXCEPT !.co2_saved = @ + kwh_saved * 4500]
      [] OTHER -> user

----------------------------------------------------------------------------
(* The store (database.py) and the requests                                *)

Slots == {1, 2}               \* requests in flight at once
UserIds == {1, 2, 3}
Callers == {1, 2}             \* the users whose requests are modelled
ChallengeIds == {1, 2}
Keys == Callers \X ChallengeIds

\* A users row as User() leaves it: every aggregate at its column default.
NewUser(region) ==
    [total_points |-> 0, weekly_points |-> 0, trash_collected |-> 0,
     trees_planted |-> 0, co2_saved |-> 0, is_active |-> TRUE,
     region |-> region, rank |-> 0]

UserColumns ==
    {"total_points", "weekly_points", "trash_collected", "trees_planted",
     "co2_saved", "is_active", "region", "rank"}

\* Session.commit() flushing a loaded User: the UPDATE sets the columns whose
\* value was changed on the object since it was loaded, each to the value the
\* object holds; the other columns of the row keep what is committed.
FlushUser(row, loaded, changed) ==
    [col \in UserColumns |->
        IF changed[col] # loaded[col] THEN changed[col] ELSE row[col]]

NoData == [photos |-> <<>>, location |-> "", impact_none |-> FALSE,
           impact_data |-> EmptyDict]

\* The requests create_activity is called with.
ActivityInputs ==
    { [type |-> "trash",
       data |-> [NoData EXCEPT !.impact_data = [bags_collected |-> 1 * Unit]]],
      [type |-> "trees",
       data |-> [NoData EXCEPT !.impact_data = [trees_planted |-> 2 * Unit]]],
      [type |-> "water", data |-> [NoData EXCEPT !.impact_none = TRUE]],
      [type |-> "plastic", data |-> NoData] }

IdleReq ==
    [op |-> "none", pc |-> "idle", result |-> "", uid |-> 0, aid |-> 0,
     cid |-> 0, type |-> "", data |-> NoData, points |-> 0, progress |-> 0,
     cu |-> NewUser(""), credited_at_start |-> FALSE, update_data |-> EmptyDict]

Idle(r) == req[r].pc = "idle"
AllIdle == \A r \in Slots : Idle(r)

\* A handler returns or raises: its session is closed, the response is
\* recorded and the slot is free.
Finish(r, result) ==
    req' = [req EXCEPT ![r] =
              [IdleReq EXCEPT !.op = req[r].op, !.aid = req[r].aid,
                              !.result = result]]

InitStore ==
    /\ users = [u \in UserIds |-> NewUser(IF u = 3 THEN "Volta" ELSE "Central")]
    /\ activities = EmptyDict
    /\ participants = EmptyDict
    /\ challenges = [c \in ChallengeIds |->
                        [points |-> 50 * Unit, is_active |-> (c = 1),
                         start_date |-> 0, end_date |-> 1]]
    /\ now = 0
    /\ next_id = 1
    /\ req = [r \in Slots |-> IdleReq]
    /\ ncalls = 0
    /\ credits = [k \in Keys |-> 0]

\* A request arrives on a free slot.
Begin(r) ==
    /\ Idle(r)
    /\ ncalls < MaxCalls
    /\ ncalls' = ncalls + 1

----------------------------------------------------------------------------
(* activities/routes.py: create_activity                                   *)

\* ActivityCreate.validate_type
validate_type(activity_type) == activity_type \in ActivityTypes

\* Lines 117-134: the request is validated, points are computed and the
\* Activity row is inserted and committed.
CreateInsert(r, u, in) ==
    /\ Begin(r)
    /\ LET fresh == [IdleReq EXCEPT !.op = "create"]
       IN  IF ~validate_type(in.type)
           THEN /\ req' = [req EXCEPT ![r] = [fresh EXCEPT !.result = "validation"]]
                /\ UNCHANGED <<activities, next_id>>
           ELSE IF calculate_points_raises(in.type, in.data)
           THEN /\ req' = [req EXCEPT ![r] = [fresh EXCEPT !.result = "error"]]
                /\ UNCHANGED <<activities, next_id>>
           ELSE LET points == calculate_points(in.type, in.data) IN
                /\ activities' =
                      [a \in DOMAIN activities \cup {next_id} |->
                          IF a = next_id
                          THEN [user_id |-> u, type |-> in.type,
                                points |-> points, data |-> in.data]
                          ELSE activities[a]]
                /\ next_id' = next_id + 1
                /\ req' = [req EXCEPT ![r] =
                              [fresh EXCEPT !.pc = "ca_read", !.uid = u, !.aid = next_id,
                                            !.type = in.type, !.data = in.data,
                                            !.points = points]]
    /\ UNCHANGED <<users, participants, challenges, credits, others>>

\* Line 137, reading current_user.total_points: the first commit expired the
\* object, so the read loads the row as it is committed now.
CreateRead(r) ==
    /\ req[r].pc = "ca_read"
    /\ req' = [req EXCEPT ![r].cu = users[req[r].uid], ![r].pc = "ca_write"]
    /\ UNCHANGED <<users, activities, participants, challenges, next_id,
                   ncalls, credits, others>>

\* Lines 137-141: the object's totals and impact fields are changed in memory
\* and written by the second commit.
CreateWrite(r) ==
    /\ req[r].pc = "ca_write"
    /\ LET q == req[r]
           added == [q.cu EXCEPT !.total_points = @ + q.points,
                                 !.weekly_points = @ + q.points]
       IN  IF update_user_impact_stats_raises(q.type, q.data)
           THEN /\ Finish(r, "error")
                /\ UNCHANGED users
           ELSE /\ users' = [users EXCEPT ![q.uid] =
                    FlushUser(@, q.cu, update_user_impact_stats(added, q.type, q.data))]
                /\ Finish(r, "ok")
    /\ UNCHANGED <<activities, participants, challenges, next_id, ncalls, credits, others>>

----------------------------------------------------------------------------
(* activities/routes.py: update_activity                                   *)

\* ActivityUpdate bodies as activity_update.dict(exclude_unset=True) gives
\* them: the fields the client sent.
UpdateInputs ==
    { [impact_data |-> [bags_collected |-> 3 * Unit]],
      [location |-> "Labadi Beach"] }

\* Lines 230-237: setattr for every field sent.
SetFields(data, update_data) ==
    [photos |-> Get(update_data, "photos", data.photos),
     location |-> Get(update_data, "location", data.location),
     impact_none |-> IF "impact_data" \in DOMAIN update_data THEN FALSE
                     ELSE data.impact_none,
     impact_data |-> Get(update_data, "impact_data", data.impact_data)]

\* Session.commit() flushing a loaded Activity: the UPDATE sets the columns
\* changed on the object since it was loaded.
FlushActivity(row, loaded, changed) ==
    [row EXCEPT !.data =
        [photos |-> IF changed.photos # loaded.photos
                    THEN changed.photos ELSE row.data.photos,
         location |-> IF changed.location # loaded.location
                      THEN changed.location ELSE row.data.location,
         impact_none |-> IF changed.impact_none # loaded.impact_none
                            \/ changed.impact_data # loaded.impact_data
                         THEN changed.impact_none ELSE row.data.impact_none,
         impact_data |-> IF changed.impact_none # loaded.impact_none
                            \/ changed.impact_data # loaded.impact_data
                         THEN changed.impact_data ELSE row.data.impact_data]]

\* Lines 219-228: the activity is looked up by id and owner.
UpdateQuery(r, u, a, update_data) ==
    /\ Begin(r)
    /\ LET fresh == [IdleReq EXCEPT !.op = "update", !.aid = a] IN
       req' = [req EXCEPT ![r] =
          IF a \in DOMAIN activities /\ activities[a].user_id = u
          THEN [fresh EXCEPT !.pc = "ua_commit", !.uid = u,
                             !.data = activities[a].data,
                             !.update_data = update_data]
          ELSE [fresh EXCEPT !.result = "not_found"]]
    /\ UNCHANGED <<users, activities, participants, challenges, next_id, credits, others>>

\* Lines 230-240: the fields are set on the loaded object and committed.  The
\* UPDATE of a row that a concurrent delete_activity has removed matches no
\* row (StaleDataError), and db.refresh finds no row either.
UpdateCommit(r) ==
    /\ req[r].pc = "ua_commit"
    /\ LET q == req[r] IN
       IF q.aid \notin DOMAIN activities
       THEN /\ Finish(r, "error")
            /\ UNCHANGED activities
       ELSE /\ activities' = [activities EXCEPT ![q.aid] =
                   FlushActivity(@, q.data, SetFields(q.data, q.update_data))]
            /\ req' = [req EXCEPT ![r] =
                   [IdleReq EXCEPT !.op = "update", !.aid = q.aid, !.result = "ok",
                                   !.update_data = q.update_data]]
    /\ UNCHANGED <<users, participants, challenges, next_id, ncalls, credits, others>>

----------------------------------------------------------------------------
(* activities/routes.py: delete_activity                                   *)

\* Lines 259-264: the get_current_user dependency loads the caller's row into
\* the request's session (get_db is shared by the handler and its
\* dependencies); nothing expires it before line 279.
DeleteAuth(r, u, a) ==
    /\ Begin(r)
    /\ req' = [req EXCEPT ![r] =
                  [IdleReq EXCEPT !.op = "delete", !.pc = "da_query", !.uid = u,
                                  !.aid = a, !.cu = users[u]]]
    /\ UNCHANGED <<users, activities, participants, challenges, next_id, credits, others>>

\* DeleteQuery with the filter Activity.user_id == current_user.id left out.
DeleteQueryAnyOwner(r) ==
    /\ req[r].pc = "da_query"
    /\ LET q == req[r] IN
       IF q.aid \in DOMAIN activities
       THEN req' = [req EXCEPT ![r].pc = "da_commit",
                               ![r].points = activities[q.aid].points]
       ELSE req' = [req EXCEPT ![r] =
                      [IdleReq EXCEPT !.op = "delete", !.uid = q.uid, !.aid = q.aid,
                                      !.result = "not_found"]]
    /\ UNCHANGED <<users, activities, participants, challenges, next_id,
                   ncalls, credits, others>>

\* Lines 267-276: the activity is looked up by id and owner.
DeleteQuery(r) ==
    /\ req[r].pc = "da_query"
    /\ LET q == req[r] IN
       IF q.aid \in DOMAIN activities /\ activities[q.aid].user_id = q.uid
       THEN req' = [req EXCEPT ![r].pc = "da_commit",
                               ![r].points = activities[q.aid].points]
       ELSE req' = [req EXCEPT ![r] =
                      [IdleReq EXCEPT !.op = "delete", !.uid = q.uid, !.aid = q.aid,
                                      !.result = "not_found"]]
    /\ UNCHANGED <<users, activities, participants, challenges, next_id,
                   ncalls, credits, others>>

\* DeleteCommit lowering the totals by the score of the record's current
\* category and metrics instead of the stored activity.points.
DeleteCommitRecomputed(r) ==
    /\ req[r].pc = "da_commit"
    /\ LET q == req[r]
           row == activities[q.aid]
           points == IF q.aid \in DOMAIN activities
                     THEN calculate_points(row.type, row.data) ELSE q.points
           lowered == [q.cu EXCEPT !.total_points = @ - points,
                                   !.weekly_points = @ - points]
       IN  users' = [users EXCEPT ![q.uid] = FlushUser(@, q.cu, lowered)]
    /\ activities' = [a \in DOMAIN activities \ {req[r].aid} |-> activities[a]]
    /\ Finish(r, "ok")
    /\ UNCHANGED <<participants, challenges, next_id, ncalls, credits, others>>

\* DeleteCommit lowering the totals of the committed row instead of the
\* values the request loaded.
DeleteCommitFresh(r) ==
    /\ req[r].pc = "da_commit"
    /\ LET q == req[r] IN
       users' = [users EXCEPT ![q.uid].total_points = @ - q.points,
                              ![q.uid].weekly_points = @ - q.points]
    /\ activities' = [a \in DOMAIN activities \ {req[r].aid} |-> activities[a]]
    /\ Finish(r, "ok")
    /\ UNCHANGED <<participants, challenges, next_id, ncalls, credits, others>>

\* Lines 279-283: the loaded totals are lowered by the record's points, the
\* record is deleted, and both are committed together.
DeleteCommit(r) ==
    /\ req[r].pc = "da_commit"
    /\ LET q == req[r]
           lowered == [q.cu EXCEPT !.total_points = @ - q.points,
                                   !.weekly_points = @ - q.points]
       IN  users' = [users EXCEPT ![q.uid] = FlushUser(@, q.cu, lowered)]
    /\ activities' = [a \in DOMAIN activities \ {req[r].aid} |-> activities[a]]
    /\ Finish(r, "ok")
    /\ UNCHANGED <<participants, challenges, next_id, ncalls, credits, others>>

----------------------------------------------------------------------------
(* challenges/routes.py: join_challenge, leave_challenge,                  *)
(* update_challenge_progress                                               *)

Joined(u, c) == <<u, c>> \in DOMAIN participants

\* challenge_participants.insert().values(user_id, challenge_id, joined_at):
\* progress and completed take their column defaults.
NewParticipation == [progress |-> 0, completed |-> FALSE]

\* JoinCheck without the lookup of lines 242-251.
JoinCheckNoExisting(r, u, c) ==
    /\ Begin(r)
    /\ LET fresh == [IdleReq EXCEPT !.op = "join", !.uid = u, !.cid = c] IN
       req' = [req EXCEPT ![r] =
          IF c \notin DOMAIN challenges THEN [fresh EXCEPT !.result = "not_found"]
          ELSE IF ~challenges[c].is_active THEN [fresh EXCEPT !.result = "inactive"]
          ELSE [fresh EXCEPT !.pc = "jc_insert"]]
    /\ UNCHANGED <<users, activities, participants, challenges, next_id, credits, others>>

\* Lines 228-251: the challenge is looked up, then the existing participation.
JoinCheck(r, u, c) ==
    /\ Begin(r)
    /\ LET fresh == [IdleReq EXCEPT !.op = "join", !.uid = u, !.cid = c] IN
       req' = [req EXCEPT ![r] =
          IF c \notin DOMAIN challenges THEN [fresh EXCEPT !.result = "not_found"]
          ELSE IF ~challenges[c].is_active THEN [fresh EXCEPT !.result = "inactive"]
          ELSE IF Joined(u, c) THEN [fresh EXCEPT !.result = "already_joined"]
          ELSE [fresh EXCEPT !.pc = "jc_insert"]]
    /\ UNCHANGED <<users, activities, participants, challenges, next_id, credits, others>>

\* Lines 254-261: the row is inserted and committed.  (user_id, challenge_id)
\* is the table's primary key: inserting a second row for the pair raises
\* IntegrityError and the request fails.
JoinInsert(r) ==
    /\ req[r].pc = "jc_insert"
    /\ LET k == <<req[r].uid, req[r].cid>> IN
       IF k \in DOMAIN participants
       THEN /\ Finish(r, "error")
            /\ UNCHANGED participants
       ELSE /\ participants' =
                  [x \in DOMAIN participants \cup {k} |->
                      IF x = k THEN NewParticipation ELSE participants[x]]
            /\ Finish(r, "ok")
    /\ UNCHANGED <<users, activities, challenges, next_id, ncalls, credits, others>>

\* Lines 273-283
LeaveCheck(r, u, c) ==
    /\ Begin(r)
    /\ LET fresh == [IdleReq EXCEPT !.op = "leave", !.uid = u, !.cid = c] IN
       req' = [req EXCEPT ![r] =
          IF Joined(u, c) THEN [fresh EXCEPT !.pc = "lv_delete"]
          ELSE [fresh EXCEPT !.result = "not_joined"]]
    /\ UNCHANGED <<users, activities, participants, challenges, next_id, credits, others>>

\* LeaveDelete taking the reward of a completed participation back.
LeaveDeleteRevoking(r) ==
    /\ req[r].pc = "lv_delete"
    /\ LET k == <<req[r].uid, req[r].cid>>
           revoked == IF k \in DOMAIN participants /\ participants[k].completed
                      THEN challenges[k[2]].points ELSE 0
       IN  /\ participants' = [x \in DOMAIN participants \ {k} |-> participants[x]]
           /\ users' = [users EXCEPT ![k[1]].total_points = @ - revoked,
                                     ![k[1]].weekly_points = @ - revoked]
    /\ Finish(r, "ok")
    /\ UNCHANGED <<activities, challenges, next_id, ncalls, credits, others>>

\* Lines 286-292: DELETE ... WHERE user_id, challenge_id; commit.
LeaveDelete(r) ==
    /\ req[r].pc = "lv_delete"
    /\ LET k == <<req[r].uid, req[r].cid>> IN
       participants' = [x \in DOMAIN participants \ {k} |-> participants[x]]
    /\ Finish(r, "ok")
    /\ UNCHANGED <<users, activities, challenges, next_id, ncalls, credits, others>>

\* validate_progress without the check of lines 92-93.
validate_progress_lower(v) == ~(v < 0)

\* ChallengeParticipation.validate_progress (progress in percent)
validate_progress(v) == ~(v < 0) /\ ~(v > 100)

ProgressInputs == {-1, 50, 100, 101}

\* ProgressQuery without the lookup and the 400 of lines 306-315.
ProgressQueryNoLookup(r, u, c, v) ==
    /\ Begin(r)
    /\ LET fresh == [IdleReq EXCEPT !.op = "progress", !.uid = u, !.cid = c,
                                   !.progress = v] IN
       req' = [req EXCEPT ![r] =
          IF ~validate_progress(v) THEN [fresh EXCEPT !.result = "validation"]
          ELSE [fresh EXCEPT !.pc = "up_update",
                             !.credited_at_start = (credits[<<u, c>>] > 0)]]
    /\ UNCHANGED <<users, activities, participants, challenges, next_id, credits, others>>

\* Lines 306-315, after the request body is validated.
ProgressQuery(r, u, c, v) ==
    /\ Begin(r)
    /\ LET fresh == [IdleReq EXCEPT !.op = "progress", !.uid = u, !.cid = c,
                                   !.progress = v] IN
       req' = [req EXCEPT ![r] =
          IF ~validate_progress(v) THEN [fresh EXCEPT !.result = "validation"]
          ELSE IF Joined(u, c)
          THEN [fresh EXCEPT !.pc = "up_update",
                             !.credited_at_start = (credits[<<u, c>>] > 0)]
          ELSE [fresh EXCEPT !.result = "not_joined"]]
    /\ UNCHANGED <<users, activities, participants, challenges, next_id, credits, others>>

\* Lines 318-327: UPDATE ... SET progress = min(progress, 100),
\* completed = (progress >= 100) WHERE user_id, challenge_id; commit.
\* Line 330 then decides whether the award branch runs.
ProgressUpdate(r) ==
    /\ req[r].pc = "up_update"
    /\ LET q == req[r]
           k == <<q.uid, q.cid>>
       IN  /\ participants' =
                 [x \in DOMAIN participants |->
                     IF x = k
                     THEN [progress |-> Min(q.progress, 100),
                           completed |-> (q.progress >= 100)]
                     ELSE participants[x]]
           /\ IF q.progress >= 100
              THEN req' = [req EXCEPT ![r].pc = "up_read"]
              ELSE Finish(r, "ok")
    /\ UNCHANGED <<users, activities, challenges, next_id, ncalls, credits, others>>

\* Lines 331-333: the challenge is looked up; reading
\* current_user.total_points loads the row as committed now (the commit of
\* line 327 expired the object).
ProgressRead(r) ==
    /\ req[r].pc = "up_read"
    /\ IF req[r].cid \in DOMAIN challenges
       THEN req' = [req EXCEPT ![r].cu = users[req[r].uid], ![r].pc = "up_write",
                               ![r].points = challenges[req[r].cid].points]
       ELSE Finish(r, "ok")
    /\ UNCHANGED <<users, activities, participants, challenges, next_id,
                   ncalls, credits, others>>

\* ProgressWrite without line 334: the reward raises total_points only.
ProgressWriteTotalOnly(r) ==
    /\ req[r].pc = "up_write"
    /\ LET q == req[r]
           awarded == [q.cu EXCEPT !.total_points = @ + q.points]
       IN  /\ users' = [users EXCEPT ![q.uid] = FlushUser(@, q.cu, awarded)]
           /\ credits' = [credits EXCEPT ![<<q.uid, q.cid>>] = @ + 1]
    /\ Finish(r, "ok")
    /\ UNCHANGED <<activities, participants, challenges, next_id, ncalls, others>>

\* Lines 333-335: the totals are raised by challenge.points and committed.
ProgressWrite(r) ==
    /\ req[r].pc = "up_write"
    /\ LET q == req[r]
           awarded == [q.cu EXCEPT !.total_points = @ + q.points,
                                   !.weekly_points = @ + q.points]
       IN  /\ users' = [users EXCEPT ![q.uid] = FlushUser(@, q.cu, awarded)]
           /\ credits' = [credits EXCEPT ![<<q.uid, q.cid>>] = @ + 1]
    /\ Finish(r, "ok")
    /\ UNCHANGED <<activities, participants, challenges, next_id, ncalls, others>>

----------------------------------------------------------------------------
(* database.py: get_db                                                     *)

\* The handler raises, or its worker dies, between two of its steps: get_db's
\* finally closes the session.  What the session has committed stays; what it
\* holds uncommitted is dropped.
Abort(r) ==
    /\ ~Idle(r)
    /\ Finish(r, "aborted")
    /\ UNCHANGED <<users, activities, participants, challenges, next_id,
                   ncalls, credits, others>>

----------------------------------------------------------------------------
(* community/routes.py: get_leaderboard                                    *)

Timeframes == {"all_time", "monthly", "weekly"}

\* query.filter(User.is_active == True), and the region filter `if region:`
ListedOf(t, region) ==
    { u \in UserIds :
        t[u].is_active /\ (region = "" \/ t[u].region = region) }

Listed(region) == ListedOf(users, region)

\* ORDER BY User.rank in place of the ORDER BY of lines 34-40.
MayPrecedeByRank(t, a, b, timeframe) == t[a].rank <= t[b].rank

\* ORDER BY of lines 34-40: the row of a may come before the row of b, in
\* the users table t.
\* weekly and monthly: weekly_points DESC, total_points DESC;
\* all_time: total_points DESC.  Rows the ORDER BY does not tell apart come
\* in whatever order the database produces them.
MayPrecedeOf(t, a, b, timeframe) ==
    IF timeframe \in {"weekly", "monthly"}
    THEN \/ t[a].weekly_points > t[b].weekly_points
         \/ /\ t[a].weekly_points = t[b].weekly_points
            /\ t[a].total_points >= t[b].total_points
    ELSE t[a].total_points >= t[b].total_points

MayPrecede(a, b, timeframe) == MayPrecedeOf(users, a, b, timeframe)

\* The lists query.limit(limit).all() can return.
QueryResultsOf(t, region, timeframe, limit) ==
    LET rows == ListedOf(t, region)
        n == Min(limit, Cardinality(rows))
    IN  { s \in [1 .. n -> rows] :
            /\ \A i, j \in 1 .. n : i < j =>
                  s[i] # s[j] /\ MayPrecedeOf(t, s[i], s[j], timeframe)
            /\ \A u \in rows : (\A i \in 1 .. n : s[i] # u) =>
                  \A i \in 1 .. n : MayPrecedeOf(t, s[i], u, timeframe) }

QueryResults(region, timeframe, limit) ==
    QueryResultsOf(users, region, timeframe, limit)

\* Lines 44-68: each row becomes an entry whose rank is its position.
GetLeaderboard(region, timeframe, limit) ==
    /\ \E users_ \in QueryResults(region, timeframe, limit) :
          board' = [idx \in 1 .. Len(users_) |->
                      [rank |-> idx, user_id |-> users_[idx],
                       total_points |-> users[users_[idx]].total_points,
                       weekly_points |-> users[users_[idx]].weekly_points]]
    /\ board_q' = [region |-> region, timeframe |-> timeframe, limit |-> limit,
                   asked |-> TRUE]
    /\ UNCHANGED <<ledgerVars, now, scoreVars>>

NoQuery == [region |-> "", timeframe |-> "all_time", limit |-> 0, asked |-> FALSE]

BoardPoints == { p * Unit : p \in 0 .. MaxBoardPoints }

\* The users table at the time of the query: any totals, weekly_points never
\* above total_points, accounts active or deactivated.
InitBoard ==
    /\ users \in { t \in [UserIds -> [total_points : BoardPoints,
                                       weekly_points : BoardPoints,
                                       trash_collected : {0}, trees_planted : {0},
                                       co2_saved : {0}, is_active : BOOLEAN,
                                       region : {"Central", "Volta"}, rank : {0}]] :
                      \A u \in UserIds :
                         /\ t[u].weekly_points <= t[u].total_points
                         /\ t[u].region = IF u = 3 THEN "Volta" ELSE "Central" }
    /\ board_q = NoQuery
    /\ board = <<>>

----------------------------------------------------------------------------
(* calculate_points applied to every bounded input                          *)

\* -1/Unit, 0, 1/Unit, ... , MaxMetric
MetricValues == -1 .. MaxMetric * Unit

MetricKey(activity_type) ==
    CASE activity_type = "trash" -> "bags_collected"
      [] activity_type = "trees" -> "trees_planted"
      [] activity_type = "mobility" -> "distance_km"
      [] activity_type = "water" -> "water_saved_liters"
      [] activity_type = "energy" -> "energy_saved_kwh"

DictsOf(activity_type) ==
    {EmptyDict} \cup
    { [k \in {MetricKey(activity_type)} |-> v] : v \in MetricValues }

ScoreInputsOf(activity_type) ==
    { [type |-> activity_type,
       data |-> [photos |-> ph, location |-> loc, impact_none |-> FALSE,
                 impact_data |-> d]] :
        ph \in {<<>>, <<"a.jpg">>},
        loc \in {"", "Labadi Beach"},
        d \in DictsOf(activity_type) }

ScoreInputs == UNION { ScoreInputsOf(t) : t \in ActivityTypes }

\* Categories ActivityCreate.validate_type does not allow.
UnknownTypes == {"plastic", "recycling"}

\* calculate_points takes any string as activity_type.
ScoreInputsAny ==
    ScoreInputs \cup
    { [type |-> t,
       data |-> [photos |-> ph, location |-> loc, impact_none |-> FALSE,
                 impact_data |-> d]] :
        t \in UnknownTypes,
        ph \in {<<>>, <<"a.jpg">>},
        loc \in {"", "Labadi Beach"},
        d \in {EmptyDict, [bags_collected |-> 1 * Unit]} }

NoScore == [done |-> FALSE, raised |-> FALSE, points |-> 0]

InitScore ==
    /\ score_in \in ScoreInputs
    /\ score_out = NoScore

Score ==
    /\ ~score_out.done
    /\ score_out' =
          IF calculate_points_raises(score_in.type, score_in.data)
          THEN [done |-> TRUE, raised |-> TRUE, points |-> 0]
          ELSE [done |-> TRUE, raised |-> FALSE,
                points |-> calculate_points(score_in.type, score_in.data)]
    /\ UNCHANGED <<score_in, ledgerVars, now, boardVars>>

----------------------------------------------------------------------------
(* Specifications                                                          *)

CreateOf(r, inputs) ==
    \/ \E u \in Callers, in \in inputs : CreateInsert(r, u, in)
    \/ CreateRead(r)
    \/ CreateWrite(r)

Create(r) == CreateOf(r, ActivityInputs)

\* The requests create_activity answers with 200.
SoundInputs ==
    { in \in ActivityInputs :
        /\ validate_type(in.type)
        /\ ~calculate_points_raises(in.type, in.data)
        /\ ~update_user_impact_stats_raises(in.type, in.data) }

Delete(r) ==
    \/ \E u \in Callers, a \in 1 .. next_id : DeleteAuth(r, u, a)
    \/ DeleteQuery(r)
    \/ DeleteCommit(r)

Update(r) ==
    \/ \E u \in Callers, a \in 1 .. next_id, update_data \in UpdateInputs :
          UpdateQuery(r, u, a, update_data)
    \/ UpdateCommit(r)

Join(r) ==
    \/ \E u \in Callers, c \in ChallengeIds : JoinCheck(r, u, c)
    \/ JoinInsert(r)

Leave(r) ==
    \/ \E u \in Callers, c \in ChallengeIds : LeaveCheck(r, u, c)
    \/ LeaveDelete(r)

Progress(r) ==
    \/ \E u \in Callers, c \in ChallengeIds, v \in ProgressInputs :
          ProgressQuery(r, u, c, v)
    \/ ProgressUpdate(r)
    \/ ProgressRead(r)
    \/ ProgressWrite(r)

NoLedger ==
    /\ req = [r \in Slots |-> IdleReq]
    /\ activities = EmptyDict
    /\ participants = EmptyDict
    /\ challenges = EmptyDict
    /\ now = 0
    /\ next_id = 1
    /\ ncalls = 0
    /\ credits = [k \in Keys |-> 0]

Init ==
    /\ InitStore
    /\ score_in = CHOOSE i \in ScoreInputs : TRUE
    /\ score_out = NoScore
    /\ board_q = NoQuery
    /\ board = <<>>

LedgerStep(r) ==
    \/ Create(r) \/ Update(r) \/ Delete(r)
    \/ Join(r) \/ Leave(r) \/ Progress(r)
    \/ Abort(r)

\* Every handler of the ledger, from any caller, in any interleaving.
Next == \E r \in Slots : LedgerStep(r)

Spec == Init /\ [][Next]_vars

\* Concurrent create_activity requests, each running to completion.
NextCreate == \E r \in Slots : CreateOf(r, SoundInputs)

SpecCreate == Init /\ [][NextCreate]_vars

\* create_activity and delete_activity, one request at a time, each running
\* to completion.
NextActivitySeq == CreateOf(1, SoundInputs) \/ Delete(1)

SpecActivitySeq == Init /\ [][NextActivitySeq]_vars

\* create_activity and delete_activity requests of both callers, in any
\* interleaving, each running to completion.
NextActivity == \E r \in Slots : Create(r) \/ Delete(r)

SpecActivity == Init /\ [][NextActivity]_vars

\* The handlers that add to a user's totals (create_activity and
\* update_challenge_progress, with the join it needs), requests of both
\* callers in any interleaving, each running to completion.
NextAccrual ==
    \E r \in Slots : CreateOf(r, SoundInputs) \/ Join(r) \/ Progress(r)

SpecAccrual == Init /\ [][NextAccrual]_vars

\* The handlers of the activity records (create_activity, update_activity,
\* delete_activity), requests of both callers in any interleaving, each
\* running to completion.
NextRecord ==
    \E r \in Slots : CreateOf(r, SoundInputs) \/ Update(r) \/ Delete(r)

SpecRecord == Init /\ [][NextRecord]_vars

\* The same handlers, one request at a time: create_activity and
\* update_activity arrive on slot 1, delete_activity on slot 2.
NextRecordSeq ==
    \/ Idle(2) /\ (CreateOf(1, SoundInputs) \/ Update(1))
    \/ Idle(1) /\ Delete(2)

SpecRecordSeq == Init /\ [][NextRecordSeq]_vars

\* create_activity, delete_activity, join_challenge, update_challenge_progress
\* and leave_challenge, requests of both callers in any interleaving, each
\* running to completion.
NextLedger ==
    \E r \in Slots :
        CreateOf(r, SoundInputs) \/ Delete(r) \/ Join(r) \/ Progress(r) \/ Leave(r)

SpecLedger == Init /\ [][NextLedger]_vars

\* The store after one create_activity call has returned 200 on the empty
\* store: record 1 is stored and its owner's aggregates hold its points and
\* impact.
DeleteInit ==
    /\ \E u \in Callers, in \in SoundInputs :
          LET points == calculate_points(in.type, in.data)
              new == NewUser("Central")
              added == [new EXCEPT !.total_points = @ + points,
                                   !.weekly_points = @ + points]
          IN  /\ activities = (1 :> [user_id |-> u, type |-> in.type,
                                     points |-> points, data |-> in.data])
              /\ users = [x \in UserIds |->
                            IF x = u
                            THEN update_user_impact_stats(added, in.type, in.data)
                            ELSE NewUser(IF x = 3 THEN "Volta" ELSE "Central")]
    /\ participants = EmptyDict
    /\ challenges = [c \in ChallengeIds |->
                        [points |-> 50 * Unit, is_active |-> (c = 1),
                         start_date |-> 0, end_date |-> 1]]
    /\ now = 0
    /\ next_id = 2
    /\ req = [r \in Slots |-> IdleReq]
    /\ ncalls = 0
    /\ credits = [k \in Keys |-> 0]
    /\ score_in = CHOOSE i \in ScoreInputs : TRUE
    /\ score_out = NoScore
    /\ board_q = NoQuery
    /\ board = <<>>

\* delete_activity requests of both callers on that store, in any
\* interleaving, each running to completion.
NextDelete == \E r \in Slots : Delete(r)

SpecDelete == DeleteInit /\ [][NextDelete]_vars

\* The challenge handlers alone, requests running to completion.
NextChallenge == \E r \in Slots : Join(r) \/ Leave(r) \/ Progress(r)

SpecChallenge == Init /\ [][NextChallenge]_vars

\* impact_data as update_user_impact_stats reads it: the category's metric
\* given or not, and for mobility the transport_type given or not.
ImpactDictsOf(activity_type) ==
    LET metrics == DictsOf(activity_type) \cap
                   ({EmptyDict} \cup
                    { [k \in {MetricKey(activity_type)} |-> v] :
                        v \in {1 * Unit, 3 * Unit} })
    IN  IF activity_type # "mobility" THEN metrics
        ELSE metrics \cup
             { [k \in DOMAIN d \cup {"transport_type"} |->
                   IF k = "transport_type" THEN t ELSE d[k]] :
                 d \in metrics,
                 t \in {"walking", "cycling", "public_transport", "car_pooling"} }

ImpactInputs ==
    UNION { { [type |-> t, data |-> [NoData EXCEPT !.impact_data = d]] :
                d \in ImpactDictsOf(t) } : t \in ActivityTypes }

\* create_activity by one user, one request at a time, on every such input.
NextImpact ==
    \/ \E in \in ImpactInputs : CreateInsert(1, 1, in)
    \/ CreateRead(1)
    \/ CreateWrite(1)

SpecImpact == Init /\ [][NextImpact]_vars

Dates == 0 .. MaxDate

\* The challenges table as create_challenge (lines 139-148) and the seeds
\* fill it: any start_date and end_date, and the clock anywhere in relation
\* to them.  Challenge 2 is as in InitStore.
ChallengeRows ==
    { row \in [points : {50 * Unit}, is_active : BOOLEAN,
               start_date : Dates, end_date : Dates] :
        row.start_date <= row.end_date }

JoinInit ==
    /\ users = [u \in UserIds |-> NewUser(IF u = 3 THEN "Volta" ELSE "Central")]
    /\ activities = EmptyDict
    /\ participants = EmptyDict
    /\ \E row \in ChallengeRows :
          challenges = [c \in ChallengeIds |->
                          IF c = 1 THEN row
                          ELSE [points |-> 50 * Unit, is_active |-> FALSE,
                                start_date |-> 0, end_date |-> 1]]
    /\ now \in Dates
    /\ next_id = 1
    /\ req = [r \in Slots |-> IdleReq]
    /\ ncalls = 0
    /\ credits = [k \in Keys |-> 0]
    /\ score_in = CHOOSE i \in ScoreInputs : TRUE
    /\ score_out = NoScore
    /\ board_q = NoQuery
    /\ board = <<>>

\* join_challenge on every such table.
NextJoin == \E r \in Slots : Join(r)

SpecJoin == JoinInit /\ [][NextJoin]_vars

\* calculate_points on every bounded input.
ScoreInit ==
    /\ InitScore /\ NoLedger /\ users = [u \in UserIds |-> NewUser("")]
    /\ board_q = NoQuery /\ board = <<>>

SpecScore == ScoreInit /\ [][Score]_vars

\* calculate_points on the inputs of ScoreInit and on unknown categories.
ScoreAnyInit ==
    /\ score_in \in ScoreInputsAny /\ score_out = NoScore
    /\ NoLedger /\ users = [u \in UserIds |-> NewUser("")]
    /\ board_q = NoQuery /\ board = <<>>

SpecScoreAny == ScoreAnyInit /\ [][Score]_vars

\* get_leaderboard on every bounded users table.
NextBoard ==
    \E region \in {"", "Central"}, timeframe \in Timeframes, limit \in {1, 2, 50} :
        GetLeaderboard(region, timeframe, limit)

BoardInit ==
    /\ InitBoard /\ NoLedger /\ score_in = CHOOSE i \in ScoreInputs : TRUE
    /\ score_out = NoScore

SpecBoard == BoardInit /\ [][NextBoard]_vars

\* The values the persisted users.rank column holds: its default 0, or a
\* position written at some earlier time.
RankValues == 0 .. Cardinality(UserIds) - 1

\* get_leaderboard on every bounded table of active users, with any
\* persisted rank.
RankInit ==
    /\ users \in { t \in [UserIds -> [total_points : BoardPoints,
                                       weekly_points : BoardPoints,
                                       trash_collected : {0}, trees_planted : {0},
                                       co2_saved : {0}, is_active : {TRUE},
                                       region : {"Central", "Volta"},
                                       rank : RankValues]] :
                      \A u \in UserIds :
                         /\ t[u].weekly_points <= t[u].total_points
                         /\ t[u].region = IF u = 3 THEN "Volta" ELSE "Central" }
    /\ board_q = NoQuery /\ board = <<>>
    /\ NoLedger /\ score_in = CHOOSE i \in ScoreInputs : TRUE
    /\ score_out = NoScore

\* One get_leaderboard call on the table.
NextRank == ~board_q.asked /\ NextBoard

SpecRank == RankInit /\ [][NextRank]_vars

----------------------------------------------------------------------------
(* Properties                                                              *)

RECURSIVE SumOver(_, _)
\* The sum of the stored points of the activities in S.
SumOver(S, rows) ==
    IF S = {} THEN 0
    ELSE LET a == CHOOSE x \in S : TRUE
         IN  rows[a].points + SumOver(S \ {a}, rows)

\* The points of the activities user u owns.
SumPoints(u) ==
    SumOver({ a \in DOMAIN activities : activities[a].user_id = u }, activities)

\* C1: when N concurrent create_activity calls for one user have returned,
\* the user's total_points and weekly_points have grown by the sum of the
\* calls' points (N*p for N calls worth p each): no increment is lost.
C1_NoLostIncrement ==
    AllIdle =>
        \A u \in Callers :
            /\ users[u].total_points = SumPoints(u)
            /\ users[u].weekly_points = SumPoints(u)

\* C2: of two concurrent update_progress calls carrying progress >= 100 for
\* one (user, challenge), only one credits the reward: the call that was
\* already running when the other's credit was committed adds nothing to
\* total_points and weekly_points.
C2_BonusExactlyOnce ==
    [][\A r \in Slots :
          (/\ req[r].op = "progress" /\ req[r].pc = "up_write"
           /\ ~req[r].credited_at_start
           /\ credits[<<req[r].uid, req[r].cid>>] > 0
           /\ req'[r] # req[r])
          => /\ users'[req[r].uid].total_points = users[req[r].uid].total_points
             /\ users'[req[r].uid].weekly_points = users[req[r].uid].weekly_points
      ]_vars

\* C3: an update_progress call that starts after the bonus of its
\* participation was credited never changes the user's total_points or
\* weekly_points.
C3_NoReCredit ==
    [][\A r \in Slots :
          (req[r].op = "progress" /\ req[r].credited_at_start /\ req'[r] # req[r])
          => /\ users'[req[r].uid].total_points = users[req[r].uid].total_points
             /\ users'[req[r].uid].weekly_points = users[req[r].uid].weekly_points
      ]_vars

\* C4: after create_activity calls followed by delete_activity on the same
\* records, total_points, weekly_points, trash_collected, trees_planted and
\* co2_saved are back at their values before the sequence.
C4_RoundTrip ==
    (AllIdle /\ DOMAIN activities = {}) =>
        \A u \in Callers :
            /\ users[u].total_points = 0
            /\ users[u].weekly_points = 0
            /\ users[u].trash_collected = 0
            /\ users[u].trees_planted = 0
            /\ users[u].co2_saved = 0

\* C5: a join on a pair that has a participation row is answered with
\* "Already joined this challenge", goes no further, and leaves the table of
\* participations as it is.
C5_JoinConflict ==
    [][\A r \in Slots :
          (/\ Idle(r) /\ req'[r] # req[r] /\ req'[r].op = "join"
           /\ Joined(req'[r].uid, req'[r].cid))
          => /\ req'[r].result = "already_joined"
             /\ req'[r].pc = "idle"
             /\ participants' = participants
      ]_vars

\* C5 witness: a join was refused on a pair whose participation is completed.
C5_Witness ==
    \E r \in Slots :
        /\ req[r].op = "join" /\ req[r].result = "already_joined"
        /\ Joined(req[r].uid, req[r].cid)
        /\ participants[<<req[r].uid, req[r].cid>>].completed

\* C6: for each of the five categories and every metrics value,
\* calculate_points returns a whole number in [0, 200], strictly positive.
C6_PointsRange ==
    score_out.done =>
        /\ IsWhole(score_out.points)
        /\ score_out.points >= 0
        /\ score_out.points <= 200 * Unit
        /\ score_out.points > 0

\* The ordering key the claim names for the timeframe.
BoardKey(entry) ==
    IF board_q.timeframe = "weekly" THEN entry.weekly_points
    ELSE entry.total_points

\* C7: the all_time (weekly) leaderboard is in descending total_points
\* (weekly_points) order, and entries with equal key are in ascending user
\* id order.
C7_TieBreakById ==
    (board_q.asked /\ board_q.timeframe \in {"all_time", "weekly"}) =>
        \A i, j \in 1 .. Len(board) : i < j =>
            \/ BoardKey(board[i]) > BoardKey(board[j])
            \/ /\ BoardKey(board[i]) = BoardKey(board[j])
               /\ board[i].user_id < board[j].user_id

\* C8: in every state, each user's totals hold exactly the points of the
\* user's stored activities: no record exists whose points are missing from
\* the totals, and no points are in the totals without their record.
C8_CreateAllOrNothing ==
    \A u \in Callers :
        /\ users[u].total_points = SumPoints(u)
        /\ users[u].weekly_points = SumPoints(u)

\* C9: in every state, a participation marked completed has its challenge's
\* reward in the user's total_points and weekly_points.
C9_CompletedMeansCredited ==
    \A k \in DOMAIN participants :
        participants[k].completed =>
            /\ users[k[1]].total_points >= challenges[k[2]].points
            /\ users[k[1]].weekly_points >= challenges[k[2]].points

\* C10: after a create_activity call aborts or fails, the record it inserted
\* is not in the store.
C10_AbortRollsBack ==
    \A r \in Slots :
        (req[r].op = "create" /\ req[r].result \in {"aborted", "error"})
        => req[r].aid \notin DOMAIN activities

\* C11: in every reachable state, whatever the sequence and interleaving of
\* create_activity, delete_activity, join, update_progress and leave calls,
\* each user's total_points, weekly_points, trash_collected, trees_planted
\* and co2_saved are >= 0.
C11_AggregatesNonNegative ==
    \A u \in UserIds :
        /\ users[u].total_points >= 0
        /\ users[u].weekly_points >= 0
        /\ users[u].trash_collected >= 0
        /\ users[u].trees_planted >= 0
        /\ users[u].co2_saved >= 0

\* C12: a delete_activity whose decrement would take total_points or
\* weekly_points below zero sets the aggregate to zero, still removes the
\* record, and answers with an InvariantViolation.
C12_ClampOnDelete ==
    [][\A r \in Slots :
          (/\ req[r].pc = "da_commit" /\ req'[r].pc = "idle"
           /\ req'[r].result # "aborted"
           /\ users[req[r].uid].total_points < req[r].points)
          => /\ users'[req[r].uid].total_points = 0
             /\ users'[req[r].uid].weekly_points = 0
             /\ req[r].aid \notin DOMAIN activities'
             /\ req'[r].result = "invariant_violation"
      ]_vars

\* C13: a delete_activity whose lookup finds no record with the given id
\* owned by the requester answers not-found and changes nothing: the record
\* of another owner stays, and no user's aggregates change.
C13_DeleteNotFound ==
    [][\A r \in Slots :
          (/\ req[r].pc = "da_query" /\ req'[r] # req[r]
           /\ ~(/\ req[r].aid \in DOMAIN activities
                /\ activities[req[r].aid].user_id = req[r].uid))
          => /\ req'[r].result = "not_found"
             /\ req'[r].pc = "idle"
             /\ users' = users
             /\ activities' = activities
      ]_vars

\* C13 witness: a delete was answered not-found for a record that exists,
\* belongs to the other caller and is counted in its owner's totals.
C13_Witness ==
    \E r \in Slots :
        /\ req[r].op = "delete" /\ req[r].result = "not_found"
        /\ req[r].aid \in DOMAIN activities
        /\ activities[req[r].aid].user_id # req[r].uid
        /\ users[activities[req[r].aid].user_id].total_points > 0

\* C14: leave removes the participation of the pair whatever its progress
\* and completed hold and changes no user's total_points or weekly_points;
\* a leave that finds no participation for the pair is answered with an
\* error and changes nothing.
C14_LeaveFrame ==
    [][\A r \in Slots :
          /\ (Idle(r) /\ req'[r] # req[r] /\ req'[r].op = "leave")
             => /\ participants' = participants /\ users' = users
                /\ IF Joined(req'[r].uid, req'[r].cid)
                   THEN req'[r].pc = "lv_delete"
                   ELSE req'[r].pc = "idle" /\ req'[r].result = "not_joined"
          /\ (req[r].pc = "lv_delete" /\ req'[r] # req[r])
             => /\ req'[r].result = "ok"
                /\ <<req[r].uid, req[r].cid>> \notin DOMAIN participants'
                /\ \A k \in DOMAIN participants \ {<<req[r].uid, req[r].cid>>} :
                      k \in DOMAIN participants' /\ participants'[k] = participants[k]
                /\ \A u \in UserIds :
                      /\ users'[u].total_points = users[u].total_points
                      /\ users'[u].weekly_points = users[u].weekly_points
      ]_vars

\* C14 witness: a leave removed a completed participation whose bonus was
\* credited, and the bonus is still in the user's totals.
C14_Witness ==
    \E r \in Slots, k \in Keys :
        /\ req[r].op = "leave" /\ req[r].result = "ok"
        /\ credits[k] > 0 /\ ~Joined(k[1], k[2])
        /\ users[k[1]].total_points >= challenges[k[2]].points
        /\ users[k[1]].weekly_points >= challenges[k[2]].points

\* The challenge accepts participants: is_active holds and the clock is
\* inside [start_date, end_date].
Open(c) ==
    /\ challenges[c].is_active
    /\ challenges[c].start_date <= now
    /\ now <= challenges[c].end_date

\* C15: a join on a challenge whose is_active is false, or whose window
\* [start_date, end_date] does not hold the current time, ends with the
\* inactive-challenge error and creates no participation.
C15_InactiveJoin ==
    [][\A r \in Slots :
          LET rejected == /\ Idle(r) /\ req'[r] # req[r]
                          /\ req'[r].op = "join" /\ req'[r].pc = "idle"
              inserted == req[r].pc = "jc_insert" /\ req'[r].pc = "idle"
              c == IF inserted THEN req[r].cid ELSE req'[r].cid
          IN  ((rejected \/ inserted) /\ ~Open(c))
              => /\ req'[r].result = "inactive"
                 /\ participants' = participants
      ]_vars

\* C16: scoring an activity whose category is outside {trash, trees,
\* mobility, water, energy} fails with a validation error and produces no
\* points value.
C16_UnknownCategoryFails ==
    (score_out.done /\ score_in.type \notin ActivityTypes) => score_out.raised

\* The reference scoring: base by category, + 5 with a photo, + 3 with a
\* location, + the category bonus, clamped to [0, 200].
RefBase(category) ==
    CASE category = "trash" -> 25 * Unit
      [] category = "trees" -> 50 * Unit
      [] category = "mobility" -> 15 * Unit
      [] category = "water" -> 20 * Unit
      [] category = "energy" -> 30 * Unit

RefBonus(category, metrics) ==
    CASE category = "trash" -> Min(metrics.bags_collected * 5, 25 * Unit)
      [] category = "trees" ->
            LET trees == Get(metrics, "trees_planted", 1 * Unit)
            IN  IF trees > 1 * Unit THEN (trees - 1 * Unit) * 20 ELSE 0
      [] category = "mobility" -> Min(metrics.distance_km, 15 * Unit)
      [] OTHER -> 0

RefPoints(in) ==
    LET sum == RefBase(in.type)
               + (IF in.data.photos # <<>> THEN 5 * Unit ELSE 0)
               + (IF in.data.location # "" THEN 3 * Unit ELSE 0)
               + RefBonus(in.type, in.data.impact_data)
    IN  Max(0, Min(sum, 200 * Unit))

\* The inputs C17 speaks of: every metric given is a whole number >= 0, and
\* the metric of the trash and mobility bonus is given.
IntegerMetrics(in) ==
    /\ \A k \in DOMAIN in.data.impact_data :
          IsWhole(in.data.impact_data[k]) /\ in.data.impact_data[k] >= 0
    /\ in.type \in {"trash", "mobility"}
          => MetricKey(in.type) \in DOMAIN in.data.impact_data

RefFactor(transport_type) ==
    CASE transport_type = "walking" -> 0
      [] transport_type = "cycling" -> 0
      [] transport_type = "public_transport" -> 500
      [] transport_type = "car_pooling" -> 1000

\* The reference impact triple of one activity (co2 in units of
\* 1 / (Unit * 10000) kg, the others in units of 1 / Unit).
RefImpact(category, metrics) ==
    CASE category = "trash" ->
            LET bags == Get(metrics, "bags_collected", 1 * Unit)
            IN  [trash |-> bags * 2, trees |-> 0, co2 |-> bags * 5000]
      [] category = "trees" ->
            LET trees == Get(metrics, "trees_planted", 1 * Unit)
            IN  [trash |-> 0, trees |-> trees, co2 |-> trees * 217700]
      [] category = "mobility" ->
            LET distance == Get(metrics, "distance_km", 5 * Unit)
                factor == RefFactor(Get(metrics, "transport_type", "public_transport"))
            IN  [trash |-> 0, trees |-> 0,
                 co2 |-> Max(distance * (2000 - factor), 0)]
      [] category = "water" ->
            [trash |-> 0, trees |-> 0,
             co2 |-> Get(metrics, "water_saved_liters", 50 * Unit) * 3]
      [] category = "energy" ->
            [trash |-> 0, trees |-> 0,
             co2 |-> Get(metrics, "energy_saved_kwh", 5 * Unit) * 4500]

\* C18: the impact create_activity applies to the user is the reference
\* triple of the activity: trash bags*2.0 kg and bags*0.5 co2; trees trees
\* and trees*21.77 co2; mobility max(distance*(0.2 - factor), 0) co2 with
\* transport_type public_transport (0.05) when absent; water liters*0.0003
\* co2; energy kwh*0.45 co2; mobility, water and energy change neither
\* trash_collected nor trees_planted.
C18_ImpactReference ==
    [][\A r \in Slots :
          (req[r].pc = "ca_write" /\ req'[r].pc = "idle" /\ req'[r].result = "ok")
          => LET u == req[r].uid
                 d == RefImpact(req[r].type, req[r].data.impact_data)
             IN  /\ users'[u].trash_collected = users[u].trash_collected + d.trash
                 /\ users'[u].trees_planted = users[u].trees_planted + d.trees
                 /\ users'[u].co2_saved = users[u].co2_saved + d.co2
      ]_vars

\* C19: of two concurrent joins of one (user, challenge), one succeeds and
\* the other is answered with the conflict error "Already joined this
\* challenge"; the pair never has more than one participation.
C19_ConcurrentJoin ==
    [][\A r \in Slots :
          (req[r].pc = "jc_insert" /\ req'[r] # req[r])
          => IF Joined(req[r].uid, req[r].cid)
             THEN /\ req'[r].result = "already_joined"
                  /\ participants' = participants
             ELSE /\ req'[r].result = "ok"
                  /\ <<req[r].uid, req[r].cid>> \in DOMAIN participants'
      ]_vars

RECURSIVE SumRewards(_, _)
\* The reward points of the completion bonuses committed for user u on the
\* challenges in C.
SumRewards(u, C) ==
    IF C = {} THEN 0
    ELSE LET c == CHOOSE x \in C : TRUE
         IN  (IF <<u, c>> \in Keys THEN credits[<<u, c>>] * challenges[c].points
              ELSE 0)
             + SumRewards(u, C \ {c})

\* C20: when one create_activity worth p and one completing update_progress
\* worth r have both returned, in whatever interleaving, the user's
\* total_points and weekly_points have grown by exactly p + r, and every
\* other user's aggregates are as they were.
C20_CreateAndProgress ==
    (/\ AllIdle
     /\ Cardinality(DOMAIN activities) = 1
     /\ Cardinality({ k \in Keys : credits[k] = 1 }) = 1
     /\ \A k \in Keys : credits[k] <= 1)
    => \A u \in UserIds :
          /\ users[u].total_points = SumPoints(u) + SumRewards(u, ChallengeIds)
          /\ users[u].weekly_points = SumPoints(u) + SumRewards(u, ChallengeIds)
          /\ (SumPoints(u) = 0 /\ SumRewards(u, ChallengeIds) = 0)
                => users[u] = NewUser(users[u].region)

\* C21: once a participation has completed = true, no step sets it back to
\* false while the record exists; only leave ends the completed state, by
\* removing the record.
C21_CompletedNeverReverts ==
    [][\A k \in DOMAIN participants :
          (participants[k].completed /\ k \in DOMAIN participants')
          => participants'[k].completed
      ]_vars

\* C22: over any sequence of join, update_progress and leave calls, a
\* challenge's reward is added to a user's totals at most once: the totals
\* never exceed the rewards of the challenges credited to the user, each
\* counted once.
C22_RewardAtMostOnce ==
    \A k \in Keys :
        /\ credits[k] <= 1
        /\ users[k[1]].total_points
              <= SumOver({ c \in ChallengeIds : credits[<<k[1], c>>] > 0 }, challenges)
        /\ users[k[1]].weekly_points
              <= SumOver({ c \in ChallengeIds : credits[<<k[1], c>>] > 0 }, challenges)

\* C23: a stored activity record never changes after create_activity: no
\* step changes its category, its declared metrics (impact_data, photos,
\* location) or its points, so every stored record's points are the score of
\* its category and metrics.
C23_RecordImmutable ==
    \A a \in DOMAIN activities :
        activities[a].points = calculate_points(activities[a].type, activities[a].data)

\* C24: delete_activity lowers total_points and weekly_points by exactly
\* the points stored on the record at creation: no step changes a stored
\* record's points, and the delete subtracts that value, also when the
\* record's metrics were changed in between.
C24_DeleteByStoredPoints ==
    [][/\ \A a \in DOMAIN activities \cap DOMAIN activities' :
             activities'[a].points = activities[a].points
       /\ \A r \in Slots :
             (req[r].pc = "da_commit" /\ req'[r].pc = "idle")
             => LET u == req[r].uid
                    a == req[r].aid
                IN  /\ a \notin DOMAIN activities'
                    /\ users'[u].total_points
                          = users[u].total_points - activities[a].points
                    /\ users'[u].weekly_points
                          = users[u].weekly_points - activities[a].points
      ]_vars

\* C24 witness: a record whose impact_data was rewritten by update_activity
\* was deleted, and the totals are back at zero.
C24_Witness ==
    /\ req[1].op = "update" /\ req[1].result = "ok"
    /\ "impact_data" \in DOMAIN req[1].update_data
    /\ req[2].op = "delete" /\ req[2].result = "ok"
    /\ req[2].aid = req[1].aid
    /\ \A u \in Callers : users[u].total_points = 0 /\ users[u].weekly_points = 0

C26_StoresBounded ==
    [][/\ \A k \in DOMAIN participants' :
             participants'[k].progress >= 0 /\ participants'[k].progress <= 100
       /\ \A r \in Slots :
             (/\ Idle(r) /\ req'[r] # req[r] /\ req'[r].op = "progress"
              /\ req'[r].progress > 100
              /\ Joined(req'[r].uid, req'[r].cid))
             => req'[r].pc = "up_update"
       /\ \A r \in Slots :
             (/\ req[r].pc = "up_update" /\ req'[r] # req[r]
              /\ req[r].progress > 100
              /\ Joined(req[r].uid, req[r].cid))
             => participants'[<<req[r].uid, req[r].cid>>].progress = 100
      ]_vars

\* C26 amended: every participation's progress lies in [0, 100]: a new
\* record starts at 0, an update_progress with a value below 0 or above 100
\* is rejected and stores nothing, and an accepted one stores its value.
C26_ProgressInRange ==
    [][/\ \A k \in DOMAIN participants' :
             /\ participants'[k].progress >= 0 /\ participants'[k].progress <= 100
             /\ k \notin DOMAIN participants => participants'[k].progress = 0
       /\ \A r \in Slots :
             (/\ Idle(r) /\ req'[r] # req[r] /\ req'[r].op = "progress"
              /\ (req'[r].progress < 0 \/ req'[r].progress > 100))
             => /\ req'[r].pc = "idle" /\ req'[r].result = "validation"
                /\ participants' = participants
       /\ \A r \in Slots :
             (/\ req[r].pc = "up_update" /\ req'[r] # req[r]
              /\ Joined(req[r].uid, req[r].cid))
             => participants'[<<req[r].uid, req[r].cid>>].progress = req[r].progress
      ]_vars

\* C26 witness: an update_progress with 101 was rejected on a participation
\* that holds progress 100.
C26_Witness ==
    \E r \in Slots :
        /\ req[r].op = "progress" /\ req[r].result = "validation"
        /\ req[r].progress > 100
        /\ Joined(req[r].uid, req[r].cid)
        /\ participants[<<req[r].uid, req[r].cid>>].progress = 100

\* C27: in every state with no request in flight, each user's total_points
\* equals the sum of the points of the user's stored activities plus the
\* rewards credited to the user, after any interleaving of create_activity,
\* delete_activity, join, update_progress and leave.
C27_QuiescentConsistency ==
    AllIdle =>
        \A u \in UserIds :
            users[u].total_points = SumPoints(u) + SumRewards(u, ChallengeIds)

\* C28: when delete_activity calls of the owner overlap on one record, the
\* owner's total_points and weekly_points are lowered by the record's points
\* exactly once in total, in every interleaving, and once a call has
\* answered 200 the record is removed.
C28_ConcurrentDelete ==
    /\ 1 \in DOMAIN activities =>
          /\ users[activities[1].user_id].total_points = activities[1].points
          /\ users[activities[1].user_id].weekly_points = activities[1].points
    /\ 1 \notin DOMAIN activities =>
          \A u \in UserIds :
              users[u].total_points = 0 /\ users[u].weekly_points = 0
    /\ (\E r \in Slots : Idle(r) /\ req[r].op = "delete" /\ req[r].result = "ok")
          => 1 \notin DOMAIN activities

\* C28 witness: two delete_activity calls on record 1 both passed the lookup
\* and both answered 200.
C28_Witness ==
    /\ \A r \in Slots :
          /\ Idle(r) /\ req[r].op = "delete" /\ req[r].aid = 1
          /\ req[r].result = "ok"
    /\ ncalls = 2
    /\ 1 \notin DOMAIN activities
    /\ \A u \in UserIds : users[u].total_points = 0

\* C29: create_activity, delete_activity and a completing update_progress
\* change total_points and weekly_points of a user by the same amount, so
\* in every reachable state, under any interleaving, the difference
\* total_points - weekly_points of each user is the one it started with, 0.
C29_TotalsMoveTogether ==
    \A u \in UserIds : users[u].total_points - users[u].weekly_points = 0

\* C29 witness: a user who created an activity and was credited a reward
\* holds points.
C29_Witness ==
    \E u \in Callers :
        /\ users[u].total_points > 0
        /\ \E c \in ChallengeIds : credits[<<u, c>>] > 0
        /\ \E a \in DOMAIN activities : activities[a].user_id = u

\* C30: an update_progress call for a (user, challenge) pair that has no
\* participation is answered with an error at once, whatever its progress
\* value: the request ends there, no participation is created and no points
\* are credited.
C30_ProgressNotJoined ==
    [][\A r \in Slots :
          (/\ Idle(r) /\ req'[r] # req[r] /\ req'[r].op = "progress"
           /\ <<req'[r].uid, req'[r].cid>> \notin DOMAIN participants)
          => /\ req'[r].pc = "idle"
             /\ req'[r].result \in {"not_joined", "validation"}
             /\ participants' = participants
             /\ users' = users
             /\ credits' = credits
      ]_vars

\* C30 witness: an update_progress call with progress 100 for a pair that
\* has no participation was answered 400 and nothing was credited.
C30_Witness ==
    \E r \in Slots :
        /\ Idle(r) /\ req[r].op = "progress" /\ req[r].result = "not_joined"
        /\ req[r].progress >= 100
        /\ ~Joined(req[r].uid, req[r].cid)
        /\ credits[<<req[r].uid, req[r].cid>>] = 0
        /\ users[req[r].uid].total_points = 0

====
